---- MODULE Spec2Model ----
(***************************************************************************)
(* The ReAct loop of pratica/main.py (agent_loop) with the Agent           *)
(* transcript and the tool registry of pratica/agent.py.                   *)
(*                                                                         *)
(* Text is a sequence of tokens.  A token is a maximal run of word         *)
(* characters (a word, written as the TLA+ string of the same letters) or  *)
(* a single character of punctuation or whitespace (":", ",", " ", "\n").  *)
(* No text of the model holds two adjacent word tokens, so every regular   *)
(* expression of the code can be run token by token with the code's own    *)
(* greedy/backtracking order.                                              *)
(***************************************************************************)
EXTENDS Integers, Sequences, FiniteSets, TLC

\* ------------------------------------------------------------------ bounds

\* largest max_iterations a run of Spec is started with
MaxBudget == 3

\* a text of SpecTurn has at most this many lines
MaxLines == 3

\* ------------------------------------------------------------------ tokens

NL == "\n"
SP == " "

\* str.strip() and the regex class \s: the whitespace of the model's texts
IsSpace(t) == t \in {SP, NL}

\* the marker words, compared as Python compares them: `in` is case-sensitive,
\* a pattern under re.IGNORECASE is not
AnswerWord == {"Answer"}
AnswerWordIC == {"Answer", "answer", "ANSWER"}
PauseWord == {"PAUSE"}
ActionWord == {"Action"}
ActionWordIC == {"Action", "action", "ACTION"}

\* the words of the texts; every one is letters and underscores only
Words ==
    { "Answer", "answer", "ANSWER", "Action", "action", "ACTION", "PAUSE",
      "Thought", "get_country_info", "convert_currency", "lookup_tool",
      "Get_Country_Info", "Brazil", "USD", "BRL", "EUR", "ready" }

\* words written in lowercase letters and underscores only
LowerWords ==
    { "answer", "action", "get_country_info", "convert_currency",
      "lookup_tool", "ready" }

\* [a-z_]+ under re.IGNORECASE: any word of letters and underscores
IsNameTokIC(t) == t \in Words

\* ------------------------------------------------------------- str helpers

\* the text from token a to its end
From(s, a) == SubSeq(s, a, Len(s))

\* str.strip(): leading and trailing whitespace removed
RECURSIVE LStrip(_)
LStrip(s) == IF s # <<>> /\ IsSpace(Head(s)) THEN LStrip(Tail(s)) ELSE s

RECURSIVE RStrip(_)
RStrip(s) ==
    IF s # <<>> /\ IsSpace(s[Len(s)]) THEN RStrip(SubSeq(s, 1, Len(s) - 1)) ELSE s

Strip(s) == LStrip(RStrip(s))

\* the number of whitespace tokens of s starting at a (the longest \s* there)
RECURSIVE SpaceRun(_, _)
SpaceRun(s, a) ==
    IF a <= Len(s) /\ IsSpace(s[a]) THEN 1 + SpaceRun(s, a + 1) ELSE 0

\* the end of the line token a is on: the last token before the next "\n"
RECURSIVE LineEnd(_, _)
LineEnd(s, a) ==
    IF a > Len(s) \/ s[a] = NL THEN a - 1 ELSE LineEnd(s, a + 1)

\* str.split(","): the pieces between the commas, empty pieces kept
RECURSIVE SplitComma(_)
SplitComma(s) ==
    IF \E k \in 1..Len(s) : s[k] = ","
    THEN LET k == CHOOSE k \in 1..Len(s) :
                      s[k] = "," /\ \A j \in 1..(k - 1) : s[j] # ","
         IN <<SubSeq(s, 1, k - 1)>> \o SplitComma(From(s, k + 1))
    ELSE <<s>>

\* `word in text`, for a word given by the tokens that are it
Contains(s, word) == \E k \in 1..Len(s) : s[k] \in word

\* ------------------------------------------------------------ Turn parsing

\* `"Answer" in resposta` (main.py:83): case-sensitive
HasAnswerMutant(r) == Contains(r, AnswerWord) /\ ~Contains(r, PauseWord)
HasAnswer(r) == Contains(r, AnswerWord)

\* re `Answer:?\s*(.+)` with DOTALL | IGNORECASE tried at token p: <<matched,
\* group(1)>>.  `:?` takes the colon first, `\s*` the longest run first, and each
\* gives back only when `(.+)` would be left with nothing.
AnswerGroupAt(r, p) ==
    LET Try(c) ==
            LET a == p + 1 + c
                S == { s \in 0..SpaceRun(r, a) : a + s <= Len(r) }
            IN IF S = {} THEN <<FALSE, <<>> >>
               ELSE <<TRUE, From(r, a + (CHOOSE s \in S : \A t \in S : t <= s))>>
        colon == p + 1 <= Len(r) /\ r[p + 1] = ":"
    IN IF colon /\ Try(1)[1] THEN Try(1) ELSE Try(0)

\* re.search of that pattern (main.py:86): the leftmost token that matches
AnswerSearch(r) ==
    LET P == { p \in 1..Len(r) : r[p] \in AnswerWordIC /\ AnswerGroupAt(r, p)[1] }
    IN IF P = {} THEN <<FALSE, <<>> >>
       ELSE AnswerGroupAt(r, CHOOSE p \in P : \A q \in P : p <= q)

\* resultado_final of an Answer turn (main.py:86-87)
ExtractAnswer(r) ==
    IF AnswerSearch(r)[1] THEN Strip(AnswerSearch(r)[2]) ELSE r

\* re `Action:\s*([a-z_]+):\s*(.+)` with IGNORECASE tried at token p: the token
\* the argument group starts at, or 0 when the pattern does not match at p.
\* The second `\s*` may run over line ends; `.` stops at one.
ActionArgStart(r, p) ==
    IF ~(r[p] \in ActionWordIC /\ p + 1 <= Len(r) /\ r[p + 1] = ":") THEN 0
    ELSE LET q == p + 2 + SpaceRun(r, p + 2)
         IN IF ~(q + 1 <= Len(r) /\ IsNameTokIC(r[q]) /\ r[q + 1] = ":") THEN 0
            ELSE LET a == q + 2
                     S == { s \in 0..SpaceRun(r, a) :
                              a + s <= Len(r) /\ r[a + s] # NL }
                 IN IF S = {} THEN 0
                    ELSE a + (CHOOSE s \in S : \A t \in S : t <= s)

\* the name group of the match at p
ActionName(r, p) == <<r[p + 2 + SpaceRun(r, p + 2)]>>

\* re.findall of that pattern from token `from` on (main.py:99-101): the
\* matches left to right, none overlapping, each <<name, argument>>
RECURSIVE FindallFrom(_, _)
FindallFrom(r, from) ==
    IF from > Len(r) THEN <<>>
    ELSE LET g == ActionArgStart(r, from)
         IN IF g = 0 THEN FindallFrom(r, from + 1)
            ELSE LET e == LineEnd(r, g)
                 IN << <<ActionName(r, from), SubSeq(r, g, e)>> >>
                        \o FindallFrom(r, e + 1)

action_match(r) == FindallFrom(r, 1)

\* `"PAUSE" in resposta and "Action" in resposta` (main.py:98)
HasPauseAndAction(r) == Contains(r, PauseWord) /\ Contains(r, ActionWord)

\* the turn reaches the dispatch block (main.py:98-103)
IsActionTurn(r) == ~HasAnswer(r) /\ HasPauseAndAction(r) /\ action_match(r) # <<>>

\* nome_ferramenta, argumento (main.py:104-105)
NomeFerramenta(r) == Strip(action_match(r)[1][1])
Argumento(r) == Strip(action_match(r)[1][2])

\* ------------------------------------------------------------------- texts

\* s1 "\n" s2 "\n" ... for a sequence of lines
RECURSIVE JoinLines(_)
JoinLines(ls) ==
    IF Len(ls) = 1 THEN ls[1] ELSE ls[1] \o <<NL>> \o JoinLines(Tail(ls))

ActionLine(name, arg) == <<"Action", ":", SP, name, ":">> \o arg

\* what a model writes on one line of a turn
TurnLines ==
    { <<"Thought", ":", SP, "ready">>,
      <<"Thought", ":", SP, "answer", SP, "ready">>,
      <<"PAUSE">>,
      <<"Answer", ":", SP, "Brazil">>,
      <<"Answer", SP, "Brazil", SP>>,
      <<"Answer", ":", SP>>,
      <<"Answer", ":">>,
      <<"Answer">>,
      <<"answer", ":", SP, "Brazil">>,
      <<"Action", SP, "get_country_info", SP, "Brazil">>,
      ActionLine("get_country_info", <<SP, SP, "Brazil", SP>>),
      ActionLine("get_country_info", <<>>),
      ActionLine("Get_Country_Info", <<SP, "Brazil">>),
      ActionLine("lookup_tool", <<SP, "Brazil">>),
      ActionLine("convert_currency", <<SP, "USD">>),
      ActionLine("convert_currency", <<SP, "USD", ",", SP, "BRL">>),
      ActionLine("convert_currency", <<SP, "USD", ",">>),
      ActionLine("convert_currency", <<SP, ",", "BRL">>),
      ActionLine("convert_currency", <<SP, "USD", ",", SP, "BRL", ",", SP, "EUR">>) }

\* every text of 1..n of those lines
RECURSIVE TextsUpTo(_)
TextsUpTo(n) ==
    IF n <= 1 THEN TurnLines
    ELSE LET shorter == TextsUpTo(n - 1)
         IN shorter \cup { t \o <<NL>> \o l : t \in shorter, l \in TurnLines }

\* the turns of SpecTurn
TurnTexts == TextsUpTo(MaxLines)

Turn(ls) == JoinLines(ls)

\* the turns of Spec: the shapes the loop tells apart
CoreTexts ==
    { Turn(<< <<"Thought", ":", SP, "ready">> >>),
      Turn(<< <<"Answer", ":", SP, "Brazil">> >>),
      Turn(<< <<"Thought", ":", SP, "answer", SP, "ready">>,
              <<"Answer", ":", SP, "Brazil">> >>),
      Turn(<< ActionLine("get_country_info", <<SP, "Brazil">>),
              <<"PAUSE">>,
              <<"Answer", ":", SP, "Brazil">> >>),
      Turn(<< ActionLine("get_country_info", <<SP, "Brazil">>), <<"PAUSE">> >>),
      Turn(<< ActionLine("get_country_info", <<SP, "Brazil">>) >>),
      Turn(<< ActionLine("lookup_tool", <<SP, "Brazil">>), <<"PAUSE">> >>),
      Turn(<< ActionLine("convert_currency", <<SP, "USD">>), <<"PAUSE">> >>),
      Turn(<< ActionLine("convert_currency", <<SP, "USD", ",">>), <<"PAUSE">> >>),
      Turn(<< ActionLine("Get_Country_Info", <<SP, "Brazil">>), <<"PAUSE">> >>),
      Turn(<< ActionLine("get_country_info", <<>>), <<"PAUSE">> >>),
      Turn(<< <<"Action", SP, "get_country_info", SP, "Brazil">>, <<"PAUSE">> >>),
      Turn(<< <<"answer", ":", SP, "Brazil">> >>),
      Turn(<< ActionLine("convert_currency", <<SP, "USD", ",", SP, "BRL">>),
              ActionLine("get_country_info", <<SP, "Brazil">>),
              <<"PAUSE">> >>) }

\* ------------------------------------------------------------------- tools

\* Optional[str] = None of an AgentIteration field: no text holds this token
None == <<"<None>">>

\* the keys of the registry (agent.py:236-239)
FERRAMENTAS == { <<"get_country_info">>, <<"convert_currency">> }

\* what a registered tool returns: its formatted line or its own "ERROR: ..."
\* string (the HTTP payload is not modelled, only the two shapes of the text)
ToolReturnTexts(nome) ==
    IF nome = <<"get_country_info">>
    THEN { <<"Country", ":", SP, "data">>,
           <<"ERROR", ":", SP, "Could not fetch data">> }
    ELSE { <<"1", SP, "=", SP, "rate">>,
           <<"ERROR", ":", SP, "Could not convert">> }

\* str(e) of an exception that leaves a registry callable
ExceptionTexts == { <<"boom">> }

NotFoundText == <<"ERROR", ":", SP, "ferramenta nao encontrada">>
ArityText == <<"ERROR", ":", SP, "convert_currency requer 2 argumentos">>

\* args of the convert_currency branch (main.py:116)
Args(argumento) ==
    LET parts == SplitComma(argumento)
    IN [k \in 1..Len(parts) |-> Strip(parts[k])]

\* the positional arguments the tool is called with, or <<>> when the dispatch
\* answers without calling it (main.py:112-128)
CallArgsMutant(nome, argumento) ==
    IF nome \notin FERRAMENTAS THEN <<>>
    ELSE IF nome = <<"convert_currency">> THEN Args(argumento)
    ELSE <<argumento>>
CallArgsUnknownMutant(nome, argumento) ==
    IF nome = <<"convert_currency">>
    THEN IF Len(Args(argumento)) = 2 THEN Args(argumento) ELSE <<>>
    ELSE <<argumento>>
CallArgs(nome, argumento) ==
    IF nome \notin FERRAMENTAS THEN <<>>
    ELSE IF nome = <<"convert_currency">>
         THEN IF Len(Args(argumento)) = 2 THEN Args(argumento) ELSE <<>>
    ELSE <<argumento>>

\* resultado_ferramenta of a dispatch that calls no tool (main.py:120, 128)
NoCallResultMutant(nome) == None
NoCallResult(nome) ==
    IF nome \in FERRAMENTAS THEN ArityText ELSE NotFoundText

\* f"Observation: {resultado_ferramenta}" (main.py:133)
ObservationMutant(resultado) == resultado
Observation(resultado) == <<"Observation", ":", SP>> \o resultado

\* the initial prompt (main.py:49) and the last-iteration directive (main.py:62-66)
PromptInicial == <<"Estou em", SP, "Brasil", ",", SP, "me fale sobre", SP, "Japao">>
Directive == <<NL, NL, "ATENCAO", ":", SP, "Finalize AGORA com Answer">>

SYSTEM_PROMPT == <<"You are a country comparison assistant.">>

\* ------------------------------------------------------------------- state

VARIABLES
    pc,               \* where agent_loop is: "for", "llm", "tool", "break",
                      \* "done" (returned) or "raised" (left by an exception)
    max_iterations,   \* the argument of agent_loop
    i,                \* the loop variable (0 before the first iteration)
    proximo_prompt,
    resultado_final,
    registro,         \* the AgentIteration of the iteration in progress
    log,              \* the AgentLog
    messages,         \* agente.messages
    salvo,            \* what _salvar_log was given, in order
    consultas,        \* the calls of Agent._executar, by iteration
    invocacoes        \* the calls of registry tools: <<iteration, name, args>>

vars == <<pc, max_iterations, i, proximo_prompt, resultado_final, registro, log,
          messages, salvo, consultas, invocacoes>>

\* AgentIteration(numero=i, resposta_llm=resposta) (main.py:72-75)
AgentIteration(n, resposta) ==
    [numero |-> n, resposta_llm |-> resposta, ferramenta_chamada |-> None,
     argumento |-> None, resultado_ferramenta |-> None]

\* AgentLog(...) (main.py:41-46, agent.py:52-70)
AgentLog(max) ==
    [max_iteracoes |-> max, iteracoes_utilizadas |-> 0, iteracoes |-> <<>>,
     resposta_final |-> <<>>, sucesso |-> FALSE]

\* Agent.__init__ (agent.py:86-93)
AgentInitMutant(system) == <<>>
AgentInit(system) ==
    IF system # <<>> THEN << [role |-> "system", content |-> system] >> ELSE <<>>

InitWith(budgets) ==
    /\ max_iterations \in budgets
    /\ pc = "for"
    /\ i = 0
    /\ proximo_prompt = PromptInicial
    /\ resultado_final = <<>>
    /\ registro = AgentIteration(0, <<>>)
    /\ log = AgentLog(max_iterations)
    /\ messages = AgentInit(SYSTEM_PROMPT)
    /\ salvo = <<>>
    /\ consultas = <<>>
    /\ invocacoes = <<>>

Init == InitWith((-1)..MaxBudget)

InitTurn == InitWith({1})

\* ----------------------------------------------------------------- actions

\* the prompt iteration n sends (main.py:61-66)
PromptForMutant(prompt, n, max) == IF n >= max - 1 THEN prompt \o Directive ELSE prompt
PromptFor(prompt, n, max) == IF n = max THEN prompt \o Directive ELSE prompt

\* the bound of `for i in range(1, max_iterations + 1)` (main.py:57)
RangeStopMutant(max) == max + 2
RangeStopMinimumMutant(max) == IF max >= 5 THEN max + 1 ELSE 6
RangeStop(max) == max + 1

\* the head of the for loop takes its next value, the prompt of the iteration is
\* built and Agent.__call__ appends it and calls the model (main.py:57-70,
\* agent.py:95-100)
ForNext ==
    /\ pc = "for"
    /\ i + 1 < RangeStop(max_iterations)
    /\ i' = i + 1
    /\ proximo_prompt' = PromptFor(proximo_prompt, i', max_iterations)
    /\ messages' = IF proximo_prompt' # <<>>
                   THEN Append(messages, [role |-> "user", content |-> proximo_prompt'])
                   ELSE messages
    /\ consultas' = Append(consultas, i')
    /\ pc' = "llm"
    /\ UNCHANGED <<max_iterations, resultado_final, registro, log, salvo, invocacoes>>

\* the tail of an Action iteration (main.py:130-136)
ObserveBreakMutant(reg, resultado) ==
    /\ registro' = [reg EXCEPT !.resultado_ferramenta = resultado]
    /\ proximo_prompt' = Observation(resultado)
    /\ log' = [log EXCEPT !.iteracoes = Append(@, registro')]
    /\ pc' = "break"
Observe(reg, resultado) ==
    /\ registro' = [reg EXCEPT !.resultado_ferramenta = resultado]
    /\ proximo_prompt' = Observation(resultado)
    /\ log' = [log EXCEPT !.iteracoes = Append(@, registro')]
    /\ pc' = "for"

\* the model answers `resposta`: Agent.__call__ appends it and the loop body
\* runs up to the end of the iteration or to the call of a tool
\* (agent.py:103-105, main.py:72-140)
LLMReturns(resposta) ==
    /\ pc = "llm"
    /\ messages' = Append(messages, [role |-> "assistant", content |-> resposta])
    /\ LET reg == AgentIteration(i, resposta)
       IN IF HasAnswer(resposta)
          THEN /\ resultado_final' = ExtractAnswer(resposta)
               /\ registro' = reg
               /\ log' = [log EXCEPT !.sucesso = TRUE,
                                     !.iteracoes = Append(@, reg)]
               /\ pc' = "break"
               /\ UNCHANGED <<proximo_prompt, invocacoes>>
          ELSE IF HasPauseAndAction(resposta) /\ action_match(resposta) # <<>>
          THEN LET nome == NomeFerramenta(resposta)
                   arg == Argumento(resposta)
                   called == [reg EXCEPT !.ferramenta_chamada = nome,
                                         !.argumento = arg]
               IN /\ UNCHANGED resultado_final
                  /\ IF CallArgs(nome, arg) # <<>>
                     THEN /\ registro' = called
                          /\ invocacoes' =
                                 Append(invocacoes, <<i, nome, CallArgs(nome, arg)>>)
                          /\ pc' = "tool"
                          /\ UNCHANGED <<proximo_prompt, log>>
                     ELSE /\ Observe(called, NoCallResult(nome))
                          /\ UNCHANGED invocacoes
          ELSE /\ registro' = reg
               /\ log' = [log EXCEPT !.iteracoes = Append(@, reg)]
               /\ pc' = "for"
               /\ UNCHANGED <<proximo_prompt, resultado_final, invocacoes>>
    /\ UNCHANGED <<max_iterations, i, salvo, consultas>>

LLMRaisesMutant ==
    /\ pc = "llm"
    /\ pc' = "break"
    /\ UNCHANGED <<max_iterations, i, proximo_prompt, resultado_final, registro,
                   log, messages, salvo, consultas, invocacoes>>

\* the call of the model endpoint raises: nothing in Agent.__call__ or
\* agent_loop catches it (agent.py:100, 107-113; main.py:70)
LLMRaises ==
    /\ pc = "llm"
    /\ pc' = "raised"
    /\ UNCHANGED <<max_iterations, i, proximo_prompt, resultado_final, registro,
                   log, messages, salvo, consultas, invocacoes>>

\* the tool returns its text (main.py:117-123, 130-136)
ToolReturns(texto) ==
    /\ pc = "tool"
    /\ texto \in ToolReturnTexts(registro.ferramenta_chamada)
    /\ Observe(registro, texto)
    /\ UNCHANGED <<max_iterations, i, resultado_final, messages, salvo, consultas,
                   invocacoes>>

\* f"ERROR: {str(e)}" (main.py:126)
ErrorText(e) == <<"ERROR", ":", SP>> \o e

ToolRaisesMutant(e) ==
    /\ pc = "tool"
    /\ pc' = "raised"
    /\ UNCHANGED <<max_iterations, i, proximo_prompt, resultado_final, registro,
                   log, messages, salvo, consultas, invocacoes>>

ToolRaisesRetryMutant(e) ==
    /\ pc = "tool"
    /\ IF Cardinality({ j \in 1..Len(invocacoes) : invocacoes[j][1] = i }) = 1
       THEN /\ invocacoes' = Append(invocacoes, invocacoes[Len(invocacoes)])
            /\ UNCHANGED <<pc, registro, proximo_prompt, log>>
       ELSE /\ Observe(registro, ErrorText(e))
            /\ UNCHANGED invocacoes
    /\ UNCHANGED <<max_iterations, i, resultado_final, messages, salvo, consultas>>

\* the tool raises and the except clause of the dispatch takes it
\* (main.py:125-126, 130-136)
ToolRaises(e) ==
    /\ pc = "tool"
    /\ Observe(registro, ErrorText(e))
    /\ UNCHANGED <<max_iterations, i, resultado_final, messages, salvo, consultas,
                   invocacoes>>

\* the loop is left, by break or by the end of the range, and the log is
\* finalized and saved (main.py:57, 91, 145-158)
Finalizacao ==
    /\ \/ pc = "break"
       \/ pc = "for" /\ ~(i + 1 < RangeStop(max_iterations))
    /\ log' = [log EXCEPT !.iteracoes_utilizadas = Len(log.iteracoes),
                          !.resposta_final = resultado_final]
    /\ salvo' = Append(salvo, log')
    /\ pc' = "done"
    /\ UNCHANGED <<max_iterations, i, proximo_prompt, resultado_final, registro,
                   messages, consultas, invocacoes>>

ToolTexts == UNION { ToolReturnTexts(n) : n \in FERRAMENTAS }

Step(texts) ==
    \/ ForNext
    \/ pc = "llm" /\ \E resposta \in texts : LLMReturns(resposta)
    \/ LLMRaises
    \/ pc = "tool" /\ \E texto \in ToolTexts : ToolReturns(texto)
    \/ \E e \in ExceptionTexts : ToolRaises(e)
    \/ Finalizacao

Next == Step(CoreTexts)

NextTurn == Step(TurnTexts)

\* the loop over the turns the loop tells apart, any budget up to MaxBudget
Spec == Init /\ [][Next]_vars

\* one iteration over every text of up to MaxLines lines
SpecTurn == InitTurn /\ [][NextTurn]_vars

\* the budgets that start the loop in iteration 1
InitLive == InitWith(1..MaxBudget)

\* the steps of a run in which every model call returns
NextLive ==
    \/ ForNext
    \/ pc = "llm" /\ \E resposta \in CoreTexts : LLMReturns(resposta)
    \/ pc = "tool" /\ \E texto \in ToolTexts : ToolReturns(texto)
    \/ \E e \in ExceptionTexts : ToolRaises(e)
    \/ Finalizacao

\* the open model call comes back with a turn (main.py:70)
ModelCallReturns == pc = "llm" /\ pc' \in {"for", "tool", "break"}

\* the open tool call comes back, with a result or with an exception that the
\* loop catches (main.py:113-126)
ToolCallReturns == pc = "tool" /\ pc' = "for"

\* agent_loop is one sequential call: the interpreter takes the next step of
\* the loop and of the finalization, and an open model call or tool call
\* comes back
SpecLive ==
    /\ InitLive
    /\ [][NextLive]_vars
    /\ WF_vars(ForNext)
    /\ WF_vars(Finalizacao)
    /\ WF_pc(ModelCallReturns)
    /\ WF_pc(ToolCallReturns)

\* ------------------------------------------------------- reading the state

\* the record of iteration k
Rec(k) == log.iteracoes[k]

\* the calls of registry tools made in iteration k
InvocationsOf(k) == { j \in 1..Len(invocacoes) : invocacoes[j][1] = k }

\* the user message iteration k sent and the assistant message it got
\* (the transcript starts with the system message)
UserMsg(k) == messages[2 * k]

HasToolFields(rec) ==
    /\ rec.ferramenta_chamada # None
    /\ rec.argumento # None
    /\ rec.resultado_ferramenta # None

HasNoToolFields(rec) ==
    /\ rec.ferramenta_chamada = None
    /\ rec.argumento = None
    /\ rec.resultado_ferramenta = None

\* iteration k did not end the run: no exception left the loop in it, and the
\* loop ended after it only when it was the last of the budget
LoopContinuesAfter(k) ==
    /\ ~(pc = "raised" /\ i = k)
    /\ (pc \in {"break", "done"} /\ Len(log.iteracoes) = k) => k = max_iterations

\* ------------------------------------------------------------------ claims

\* C1: for a budget >= 1 the loop runs at most max_iterations iterations, every
\* iteration that ran to its end appended exactly one record (record k is the
\* one of iteration k, whatever the turn was), and after the finalization
\* iteracoes_utilizadas = len(iteracoes) <= max_iterations.
C1_OneRecordPerIteration ==
    max_iterations >= 1 =>
        /\ i <= max_iterations
        /\ Len(consultas) = i
        /\ Len(log.iteracoes) = IF pc \in {"llm", "tool", "raised"} THEN i - 1 ELSE i
        /\ \A k \in 1..Len(log.iteracoes) : Rec(k).numero = k
        /\ pc = "done" =>
              /\ log.iteracoes_utilizadas = Len(log.iteracoes)
              /\ log.iteracoes_utilizadas <= max_iterations

\* a finished run of three iterations: an Action turn, a Reasoning turn, an
\* Answer turn
C1_Witness ==
    /\ pc = "done"
    /\ max_iterations = 3
    /\ log.iteracoes_utilizadas = 3
    /\ HasToolFields(Rec(1))
    /\ HasNoToolFields(Rec(2)) /\ ~HasAnswer(Rec(2).resposta_llm)
    /\ HasAnswer(Rec(3).resposta_llm)

\* C2: a finished run of budget >= 1 in which no turn held the Answer marker
\* ended by exhaustion: sucesso is False, iteracoes_utilizadas is the budget,
\* resposta_final is empty, and there were exactly budget records and budget
\* model calls.
C2_Exhausted ==
    (/\ pc = "done"
     /\ max_iterations >= 1
     /\ \A k \in 1..Len(log.iteracoes) : ~HasAnswer(Rec(k).resposta_llm))
    => /\ log.sucesso = FALSE
       /\ log.iteracoes_utilizadas = max_iterations
       /\ log.resposta_final = <<>>
       /\ Len(log.iteracoes) = max_iterations
       /\ Len(consultas) = max_iterations
       /\ salvo = <<log>>

\* an exhausted run of budget 3 whose last turn was an Action turn
C2_Witness ==
    /\ pc = "done"
    /\ max_iterations = 3
    /\ ~log.sucesso
    /\ Len(log.iteracoes) = 3
    /\ HasToolFields(Rec(3))

\* C3: a turn that holds the Answer marker is an Answer turn even when it also
\* holds PAUSE and an Action line: its record has no tool fields, no tool was
\* called in its iteration, sucesso is True, and its record is the last one (no
\* later model call, the loop left by break).
C3_AnswerPriority ==
    \A k \in 1..Len(log.iteracoes) :
        Contains(Rec(k).resposta_llm, AnswerWord) =>
            /\ HasNoToolFields(Rec(k))
            /\ InvocationsOf(k) = {}
            /\ log.sucesso = TRUE
            /\ k = Len(log.iteracoes)
            /\ Len(consultas) = k
            /\ pc \in {"break", "done"}

\* the first turn of a budget of 3 holds Answer, PAUSE and an Action line of a
\* registered tool, and the run is over
C3_Witness ==
    /\ pc = "done"
    /\ max_iterations = 3
    /\ Len(log.iteracoes) = 1
    /\ Contains(Rec(1).resposta_llm, AnswerWord)
    /\ Contains(Rec(1).resposta_llm, PauseWord)
    /\ action_match(Rec(1).resposta_llm) # <<>>
    /\ action_match(Rec(1).resposta_llm)[1][1] \in FERRAMENTAS

\* the lines of a text
RECURSIVE LinesOf(_)
LinesOf(r) ==
    LET e == LineEnd(r, 1)
    IN IF e >= Len(r) THEN <<r>>
       ELSE <<SubSeq(r, 1, e)>> \o LinesOf(From(r, e + 2))

\* where the tool name of a line `Action: <tool_name>: <argument>` stands
LineNameAt(l) == 3 + SpaceRun(l, 3)

\* the line reads `Action: <tool_name>: <argument>`: a tool name of lowercase
\* letters and underscores, and an argument that is not blank
IsActionLine(l) ==
    /\ Len(l) >= 2 /\ l[1] = "Action" /\ l[2] = ":"
    /\ LineNameAt(l) + 1 <= Len(l)
    /\ l[LineNameAt(l)] \in LowerWords
    /\ l[LineNameAt(l) + 1] = ":"
    /\ Strip(From(l, LineNameAt(l) + 2)) # <<>>

LineName(l) == <<l[LineNameAt(l)]>>
LineArg(l) == Strip(From(l, LineNameAt(l) + 2))

ActionLinesOf(r) ==
    LET ls == LinesOf(r) IN { n \in 1..Len(ls) : IsActionLine(ls[n]) }

FirstActionLine(r) ==
    LinesOf(r)[CHOOSE n \in ActionLinesOf(r) : \A m \in ActionLinesOf(r) : n <= m]

\* the turn has no Answer marker, has the pause marker and has one or more
\* lines `Action: name: arg`
IsWellFormedActionTurn(r) ==
    /\ ~Contains(r, AnswerWord)
    /\ Contains(r, PauseWord)
    /\ ActionLinesOf(r) # {}

\* C4: on a turn with no Answer marker, with the pause marker and with one or
\* more lines `Action: name: arg`, the tool name and the argument recorded and
\* dispatched are the name and the trimmed argument of the first such line, and
\* the turn makes at most one tool call, of that name.
C4_FirstActionLine ==
    \A k \in 1..Len(log.iteracoes) :
        IsWellFormedActionTurn(Rec(k).resposta_llm) =>
            LET l == FirstActionLine(Rec(k).resposta_llm)
            IN /\ Rec(k).ferramenta_chamada = LineName(l)
               /\ Rec(k).argumento = LineArg(l)
               /\ Rec(k).resultado_ferramenta # None
               /\ Cardinality(InvocationsOf(k)) <= 1
               /\ \A j \in InvocationsOf(k) : invocacoes[j][2] = LineName(l)

\* iteration k + 1 sent the prompt `prompt`, with the directive behind it when
\* it was the last of the budget
NextPromptIs(k, prompt) ==
    Len(consultas) > k =>
        /\ UserMsg(k + 1).role = "user"
        /\ UserMsg(k + 1).content =
               IF k + 1 = max_iterations THEN prompt \o Directive ELSE prompt

\* C5: when an Action turn names a tool that is no key of FERRAMENTAS, no tool is
\* called in the iteration, the recorded result is "ERROR: ferramenta nao
\* encontrada", the run does not fail, and the prompt of the next iteration, when
\* there is one, is "Observation: " and that string.
C5_UnknownTool ==
    \A k \in 1..Len(log.iteracoes) :
        (Rec(k).ferramenta_chamada # None /\ Rec(k).ferramenta_chamada \notin FERRAMENTAS)
        => /\ InvocationsOf(k) = {}
           /\ Rec(k).resultado_ferramenta = NotFoundText
           /\ LoopContinuesAfter(k)
           /\ (pc = "for" /\ i = k) =>
                  proximo_prompt = <<"Observation", ":", SP>> \o NotFoundText
           /\ NextPromptIs(k, <<"Observation", ":", SP>> \o NotFoundText)

\* the first turn of a budget of 3 names lookup_tool, and the second iteration
\* has sent its prompt
C5_Witness ==
    /\ max_iterations = 3
    /\ Len(log.iteracoes) >= 1
    /\ Rec(1).ferramenta_chamada = <<"lookup_tool">>
    /\ Len(consultas) = 2
    /\ UserMsg(2).content = <<"Observation", ":", SP>> \o NotFoundText

\* C6: when an Action turn calls convert_currency with an argument that holds no
\* comma, the tool is not called, the recorded result is "ERROR:
\* convert_currency requer 2 argumentos", and the loop goes on.
C6_SingleArgument ==
    \A k \in 1..Len(log.iteracoes) :
        (/\ Rec(k).ferramenta_chamada = <<"convert_currency">>
         /\ ~Contains(Rec(k).argumento, {","}))
        => /\ InvocationsOf(k) = {}
           /\ Rec(k).resultado_ferramenta = ArityText
           /\ LoopContinuesAfter(k)
           /\ NextPromptIs(k, <<"Observation", ":", SP>> \o ArityText)

\* the first turn of a budget of 3 is `Action: convert_currency: USD`, and the
\* second iteration has sent its prompt
C6_Witness ==
    /\ max_iterations = 3
    /\ Len(log.iteracoes) >= 1
    /\ Rec(1).ferramenta_chamada = <<"convert_currency">>
    /\ Rec(1).argumento = <<"USD">>
    /\ Len(consultas) = 2

\* the two trimmed parts of an argument split on its first comma, or <<>> when
\* it has no comma
SplitFirstComma(arg) ==
    IF Contains(arg, {","})
    THEN LET k == CHOOSE k \in 1..Len(arg) :
                      arg[k] = "," /\ \A j \in 1..(k - 1) : arg[j] # ","
         IN <<Strip(SubSeq(arg, 1, k - 1)), Strip(From(arg, k + 1))>>
    ELSE <<>>

\* the split yields exactly two parts and neither is empty
TwoNonEmptyParts(arg) ==
    /\ Len(SplitFirstComma(arg)) = 2
    /\ SplitFirstComma(arg)[1] # <<>>
    /\ SplitFirstComma(arg)[2] # <<>>

\* C7: convert_currency is called if and only if its argument, split on the
\* first comma with both parts trimmed, gives two non-empty parts, and it is
\* then called with those parts; otherwise the result is the arity error and
\* the tool is not called.
C7_TwoNonEmptyParts ==
    \A k \in 1..Len(log.iteracoes) :
        Rec(k).ferramenta_chamada = <<"convert_currency">> =>
            IF TwoNonEmptyParts(Rec(k).argumento)
            THEN /\ Cardinality(InvocationsOf(k)) = 1
                 /\ \A j \in InvocationsOf(k) :
                        invocacoes[j][3] = SplitFirstComma(Rec(k).argumento)
            ELSE /\ InvocationsOf(k) = {}
                 /\ Rec(k).resultado_ferramenta = ArityText

\* the assistant messages of the transcript: the model calls that returned
AssistantMsgs == { n \in 1..Len(messages) : messages[n].role = "assistant" }

\* C8: a failure raised by a registered tool is caught in the iteration: the
\* result of every iteration that called a tool is a text the tool returned or
\* "ERROR: " and the failure detail, its record is appended with tool name and
\* argument, the next prompt is the observation of that result, the loop goes
\* on, and an exception leaves the loop only from a model call, never from an
\* iteration that called a tool.
C8_ToolFailureCaught ==
    /\ \A k \in 1..Len(log.iteracoes) :
           InvocationsOf(k) # {} =>
               /\ Rec(k).ferramenta_chamada \in FERRAMENTAS
               /\ Rec(k).argumento # None
               /\ Rec(k).resultado_ferramenta \in
                      ToolReturnTexts(Rec(k).ferramenta_chamada)
                          \cup { <<"ERROR", ":", SP>> \o e : e \in ExceptionTexts }
               /\ LoopContinuesAfter(k)
               /\ NextPromptIs(k, <<"Observation", ":", SP>> \o Rec(k).resultado_ferramenta)
    /\ \A j \in 1..Len(invocacoes) :
           \/ invocacoes[j][1] <= Len(log.iteracoes)
           \/ pc = "tool" /\ invocacoes[j][1] = i

\* the tool of the first turn of a budget of 3 raised, its record holds the
\* error text, and the second iteration has sent that observation
C8_Witness ==
    /\ max_iterations = 3
    /\ Len(log.iteracoes) >= 1
    /\ InvocationsOf(1) # {}
    /\ Rec(1).resultado_ferramenta = <<"ERROR", ":", SP, "boom">>
    /\ Len(consultas) = 2
    /\ UserMsg(2).content = <<"Observation", ":", SP, "ERROR", ":", SP, "boom">>

\* C9: when a model call has failed (it was made and is not pending, and no
\* assistant message answers it), the exception has left agent_loop: no record
\* of that iteration, no tool call in it, no further step, and no finalization
\* (iteracoes_utilizadas and resposta_final keep their defaults, sucesso is
\* False, nothing was given to _salvar_log).
C9_ModelFailureFatal ==
    (Len(consultas) > Cardinality(AssistantMsgs) /\ pc # "llm") =>
        /\ pc = "raised"
        /\ Len(log.iteracoes) = i - 1
        /\ InvocationsOf(i) = {}
        /\ Len(consultas) = i
        /\ log.iteracoes_utilizadas = 0
        /\ log.resposta_final = <<>>
        /\ log.sucesso = FALSE
        /\ salvo = <<>>
        /\ ~ENABLED Next

\* the model call of the second iteration failed, after an Action turn whose
\* tool was called
C9_Witness ==
    /\ pc = "raised"
    /\ i = 2
    /\ Len(log.iteracoes) = 1
    /\ InvocationsOf(1) # {}

\* the trimmed text behind the first "Answer:" of a text
AfterAnswerColon(r) ==
    LET P == { p \in 1..(Len(r) - 1) : r[p] = "Answer" /\ r[p + 1] = ":" }
    IN Strip(From(r, (CHOOSE p \in P : \A q \in P : p <= q) + 2))

HasAnswerColon(r) == \E p \in 1..(Len(r) - 1) : r[p] = "Answer" /\ r[p + 1] = ":"

\* C10: when the first Answer turn comes in iteration k <= budget, the last one
\* included, after Reasoning and Action turns only, the finished run has sucesso
\* True, iteracoes_utilizadas = k and resposta_final equal to the trimmed text
\* behind "Answer:".
C10_AnswerWithinBudget ==
    \A k \in 1..Len(log.iteracoes) :
        (/\ pc = "done"
         /\ Contains(Rec(k).resposta_llm, AnswerWord)
         /\ HasAnswerColon(Rec(k).resposta_llm)
         /\ \A j \in 1..(k - 1) : ~Contains(Rec(j).resposta_llm, AnswerWord))
        => /\ log.sucesso = TRUE
           /\ log.iteracoes_utilizadas = k
           /\ log.resposta_final = AfterAnswerColon(Rec(k).resposta_llm)

\* the part of C10 that is about the budget: sucesso and iteracoes_utilizadas
C10_SuccessWithinBudget ==
    \A k \in 1..Len(log.iteracoes) :
        (/\ pc = "done"
         /\ Contains(Rec(k).resposta_llm, AnswerWord)
         /\ \A j \in 1..(k - 1) : ~Contains(Rec(j).resposta_llm, AnswerWord))
        => /\ log.sucesso = TRUE
           /\ log.iteracoes_utilizadas = k
           /\ k <= max_iterations

\* C11: a turn that holds the word "Answer" in any letter case is an Answer
\* turn: sucesso is True, its record is the last one and has no tool fields, no
\* tool was called in its iteration and the loop is left.
C11_AnswerAnyCase ==
    \A k \in 1..Len(log.iteracoes) :
        Contains(Rec(k).resposta_llm, AnswerWordIC) =>
            /\ log.sucesso = TRUE
            /\ k = Len(log.iteracoes)
            /\ pc \in {"break", "done"}
            /\ HasNoToolFields(Rec(k))
            /\ InvocationsOf(k) = {}

\* C12: agent_loop takes a budget >= 1 as given: the log holds it, the loop
\* makes at most that many iterations and model calls, it makes exactly that
\* many when no turn is an Answer turn, and the last of them, which is the first
\* when the budget is 1, is the one that sends the directive.
C12_BudgetAsGiven ==
    max_iterations >= 1 =>
        /\ log.max_iteracoes = max_iterations
        /\ i <= max_iterations
        /\ Len(consultas) <= max_iterations
        /\ Len(log.iteracoes) <= max_iterations
        /\ (pc = "done" /\ ~log.sucesso) => Len(log.iteracoes) = max_iterations
        /\ (max_iterations = 1 /\ Len(consultas) = 1) =>
               UserMsg(1).content = PromptInicial \o Directive

\* a finished run of budget 1: one iteration, which sent the directive, and no
\* answer
C12_Witness ==
    /\ pc = "done"
    /\ max_iterations = 1
    /\ Len(log.iteracoes) = 1
    /\ ~log.sucesso
    /\ UserMsg(1).content = PromptInicial \o Directive

\* where the first word of `word` stands in r
FirstOf(r, word) ==
    CHOOSE p \in 1..Len(r) : r[p] \in word /\ \A q \in 1..(p - 1) : r[q] \notin word

\* the text behind the first word of `word` in r, an optional colon and the
\* whitespace skipped, trimmed; the whole of r when nothing is left
AnswerAfter(r, word) ==
    LET p == FirstOf(r, word) + 1
        a == IF p <= Len(r) /\ r[p] = ":" THEN p + 1 ELSE p
        rest == Strip(From(r, a))
    IN IF rest = <<>> THEN r ELSE rest

\* C13: the final answer of an Answer turn is the trimmed text behind the first
\* "Answer" (the first in the written case, or the first in any case), an
\* optional colon and whitespace skipped, and the raw text of the turn when
\* nothing is left behind the marker.
C13_FinalAnswerExtraction ==
    \A k \in 1..Len(log.iteracoes) :
        (pc = "done" /\ Contains(Rec(k).resposta_llm, AnswerWord)) =>
            log.resposta_final \in { AnswerAfter(Rec(k).resposta_llm, AnswerWord),
                                     AnswerAfter(Rec(k).resposta_llm, AnswerWordIC) }

\* the current prompt of iteration k without a directive: the latest
\* observation of the iterations before k, the initial user text when none
RECURSIVE BasePrompt(_)
BasePrompt(k) ==
    IF k <= 1 THEN PromptInicial
    ELSE IF HasToolFields(Rec(k - 1))
         THEN <<"Observation", ":", SP>> \o Rec(k - 1).resultado_ferramenta
         ELSE BasePrompt(k - 1)

\* how many times the directive stands in a text
DirectiveCount(s) == Cardinality({ p \in 1..Len(s) : s[p] = "ATENCAO" })

\* C14: the prompt sent in iteration k is the initial user text or the latest
\* observation text; the directive follows it, once, exactly when k is the
\* budget.
C14_DirectiveOnlyAtBudget ==
    \A k \in 1..Len(consultas) :
        /\ UserMsg(k).role = "user"
        /\ UserMsg(k).content =
               IF k = max_iterations THEN BasePrompt(k) \o Directive ELSE BasePrompt(k)
        /\ DirectiveCount(UserMsg(k).content) = IF k = max_iterations THEN 1 ELSE 0

\* budget 3: an observation in iteration 1, a turn without tool in iteration 2,
\* and iteration 3 sends that observation with the directive
C14_Witness ==
    /\ max_iterations = 3
    /\ Len(consultas) = 3
    /\ HasToolFields(Rec(1))
    /\ HasNoToolFields(Rec(2))
    /\ UserMsg(1).content = PromptInicial
    /\ UserMsg(2).content = <<"Observation", ":", SP>> \o Rec(1).resultado_ferramenta
    /\ UserMsg(3).content = UserMsg(2).content \o Directive

\* C15: a well-formed Action turn in an iteration k below the budget gets its
\* tool dispatched (a registry tool it names with a single argument is called,
\* once), its record carries the tool name, the argument and the result, the
\* loop goes on, and the prompt of iteration k + 1 is "Observation: " and that
\* result, with the directive behind it when k + 1 is the budget.
C15_ObservationIsNextPrompt ==
    \A k \in 1..Len(log.iteracoes) :
        (k < max_iterations /\ IsWellFormedActionTurn(Rec(k).resposta_llm)) =>
            /\ HasToolFields(Rec(k))
            /\ Rec(k).ferramenta_chamada = <<"get_country_info">> =>
                   \E j \in 1..Len(invocacoes) :
                       /\ InvocationsOf(k) = {j}
                       /\ invocacoes[j] = <<k, Rec(k).ferramenta_chamada, <<Rec(k).argumento>> >>
            /\ LoopContinuesAfter(k)
            /\ (pc = "for" /\ i = k) => ENABLED ForNext
            /\ NextPromptIs(k, <<"Observation", ":", SP>> \o Rec(k).resultado_ferramenta)

\* budget 2: get_country_info was called in iteration 1 and the last iteration
\* has sent its result with the directive
C15_Witness ==
    /\ max_iterations = 2
    /\ Len(consultas) = 2
    /\ IsWellFormedActionTurn(Rec(1).resposta_llm)
    /\ InvocationsOf(1) # {}
    /\ Rec(1).resultado_ferramenta \in ToolReturnTexts(<<"get_country_info">>)
    /\ UserMsg(2).content =
           <<"Observation", ":", SP>> \o Rec(1).resultado_ferramenta \o Directive

\* C16: a well-formed Action turn in the iteration that is the budget still gets
\* its tool dispatched and the result recorded, and no model call follows: the
\* loop has no further iteration, and the finished run has sucesso False, an
\* empty resposta_final and iteracoes_utilizadas equal to the budget.
C16_ActionAtBudgetExhausts ==
    \A k \in 1..Len(log.iteracoes) :
        (k = max_iterations /\ IsWellFormedActionTurn(Rec(k).resposta_llm)) =>
            /\ HasToolFields(Rec(k))
            /\ Rec(k).ferramenta_chamada = <<"get_country_info">> => InvocationsOf(k) # {}
            /\ Len(consultas) = max_iterations
            /\ Len(log.iteracoes) = max_iterations
            /\ pc \in {"for", "done"}
            /\ pc = "for" => ~ENABLED ForNext /\ ENABLED Finalizacao
            /\ log.sucesso = FALSE
            /\ pc = "done" =>
                   /\ log.resposta_final = <<>>
                   /\ log.iteracoes_utilizadas = max_iterations
                   /\ salvo = <<log>>

\* a finished run of budget 2 whose last turn called get_country_info
C16_Witness ==
    /\ pc = "done"
    /\ max_iterations = 2
    /\ Len(log.iteracoes) = 2
    /\ IsWellFormedActionTurn(Rec(2).resposta_llm)
    /\ InvocationsOf(2) # {}
    /\ Rec(2).resultado_ferramenta \in ToolReturnTexts(<<"get_country_info">>)
    /\ log.iteracoes_utilizadas = 2

\* C17: a turn the loop takes as Reasoning (no Answer marker, no Action match)
\* in an iteration k below the budget has a record without tool fields, calls
\* no tool and leaves the pending prompt as it was: iteration k + 1 sends the
\* text iteration k sent, with the directive behind it only when k + 1 is the
\* budget.
C17_ReasoningKeepsPrompt ==
    \A k \in 1..Len(log.iteracoes) :
        (/\ k < max_iterations
         /\ ~HasAnswer(Rec(k).resposta_llm)
         /\ ~IsActionTurn(Rec(k).resposta_llm)) =>
            /\ HasNoToolFields(Rec(k))
            /\ InvocationsOf(k) = {}
            /\ LoopContinuesAfter(k)
            /\ (pc = "for" /\ i = k) =>
                   /\ proximo_prompt = UserMsg(k).content
                   /\ ENABLED ForNext
            /\ NextPromptIs(k, UserMsg(k).content)

\* budget 3: iteration 1 got an observation, iteration 2 a turn with both
\* markers and no Action match, and iteration 3 sends the observation again,
\* now with the directive
C17_Witness ==
    /\ max_iterations = 3
    /\ pc = "llm"
    /\ i = 3
    /\ Rec(1).resultado_ferramenta = <<"Country", ":", SP, "data">>
    /\ Rec(2).resposta_llm =
           Turn(<< <<"Action", SP, "get_country_info", SP, "Brazil">>, <<"PAUSE">> >>)
    /\ HasNoToolFields(Rec(2))
    /\ UserMsg(2).content = <<"Observation", ":", SP, "Country", ":", SP, "data">>
    /\ UserMsg(3).content = UserMsg(2).content \o Directive

\* no line of r, taken alone, matches the Action pattern, in the widest reading
\* of the pattern: the name in any letter case, the match anywhere in the line
NoLineMatches(r) ==
    \A n \in 1..Len(LinesOf(r)) : action_match(LinesOf(r)[n]) = <<>>

\* C18: a turn without the Answer marker that lacks the pause marker, lacks the
\* action marker, or has both and no line matching the Action pattern is a
\* Reasoning turn: its record has no tool fields, so no observation and no error
\* text, no tool is called, no exception ends the run, and the next iteration
\* sends the prompt again.
C18_MalformedIsReasoning ==
    \A k \in 1..Len(log.iteracoes) :
        (/\ ~Contains(Rec(k).resposta_llm, AnswerWord)
         /\ \/ ~Contains(Rec(k).resposta_llm, PauseWord)
            \/ ~Contains(Rec(k).resposta_llm, ActionWord)
            \/ NoLineMatches(Rec(k).resposta_llm)) =>
            /\ HasNoToolFields(Rec(k))
            /\ InvocationsOf(k) = {}
            /\ LoopContinuesAfter(k)
            /\ NextPromptIs(k, UserMsg(k).content)

\* the line reads `Action: <tool_name>: ...` with a tool name of letters and
\* underscores that holds an uppercase letter
IsUpperNameLine(l) ==
    /\ Len(l) >= 2 /\ l[1] = "Action" /\ l[2] = ":"
    /\ LineNameAt(l) + 1 <= Len(l)
    /\ IsNameTokIC(l[LineNameAt(l)])
    /\ l[LineNameAt(l)] \notin LowerWords
    /\ l[LineNameAt(l) + 1] = ":"

\* C19: on a turn without the Answer marker whose lines starting with "Action:"
\* all have a tool name holding an uppercase letter, nothing matches: the turn
\* is a Reasoning turn, its record has no tool fields (no observation, the
\* not-found one included), no tool is called and the next iteration sends the
\* prompt again.
C19_UppercaseNameNoMatch ==
    \A k \in 1..Len(log.iteracoes) :
        LET ls == LinesOf(Rec(k).resposta_llm)
        IN (/\ ~Contains(Rec(k).resposta_llm, AnswerWord)
            /\ \E n \in 1..Len(ls) : IsUpperNameLine(ls[n])
            /\ \A n \in 1..Len(ls) :
                   (Len(ls[n]) >= 2 /\ ls[n][1] = "Action" /\ ls[n][2] = ":")
                       => IsUpperNameLine(ls[n])) =>
               /\ HasNoToolFields(Rec(k))
               /\ InvocationsOf(k) = {}
               /\ NextPromptIs(k, UserMsg(k).content)

\* the transcript is the system message and then (user, assistant) pairs, one
\* pair for every iteration whose model call returned, the user message alone
\* for the iteration whose model call is open or raised; the assistant message
\* of a completed iteration is the turn of its record
TranscriptShape ==
    /\ Len(messages) >= 1
    /\ messages[1] = [role |-> "system", content |-> SYSTEM_PROMPT]
    /\ \A n \in 2..Len(messages) :
           messages[n].role = IF n % 2 = 0 THEN "user" ELSE "assistant"
    /\ Len(messages) =
           IF pc \in {"llm", "raised"} THEN 2 * Len(consultas) ELSE 1 + 2 * Len(consultas)
    /\ pc \in {"for", "break", "done"} => Len(messages) = 1 + 2 * Len(log.iteracoes)
    /\ \A k \in 1..Len(log.iteracoes) :
           /\ 2 * k + 1 <= Len(messages)
           /\ messages[2 * k + 1].content = Rec(k).resposta_llm

\* a step appends at most one message and leaves the messages it found in place
TranscriptGrows ==
    /\ Len(messages') \in {Len(messages), Len(messages) + 1}
    /\ SubSeq(messages', 1, Len(messages)) = messages

\* C20: in every reachable state the transcript starts with the system message
\* and goes on with one (user, assistant) pair per completed iteration, and no
\* step removes, changes or reorders a message.
C20_ConversationState == []TranscriptShape /\ [][TranscriptGrows]_vars

\* a finished run of three iterations: the system message and three pairs
C20_Witness ==
    /\ pc = "done"
    /\ Len(log.iteracoes) = 3
    /\ Len(messages) = 7
    /\ messages[1].role = "system"
    /\ \A k \in 1..3 : messages[2 * k].role = "user" /\ messages[2 * k + 1].role = "assistant"

\* the terminal states of a run
Answered ==
    /\ pc = "done"
    /\ log.sucesso = TRUE
    /\ log.iteracoes_utilizadas \in 1..max_iterations
    /\ HasAnswer(Rec(log.iteracoes_utilizadas).resposta_llm)

Exhausted ==
    /\ pc = "done"
    /\ log.sucesso = FALSE
    /\ log.iteracoes_utilizadas = max_iterations
    /\ log.resposta_final = <<>>

\* a step is taken from a state that is not terminal, moves the iteration index
\* by one or not at all, keeps the records of the completed iterations and adds
\* at most one, and a model call it makes is the call of the next iteration
IterationAdvances ==
    /\ pc # "done"
    /\ i' \in {i, i + 1}
    /\ i' = i + 1 <=> pc = "for" /\ pc' = "llm"
    /\ Len(log'.iteracoes) \in {Len(log.iteracoes), Len(log.iteracoes) + 1}
    /\ SubSeq(log'.iteracoes, 1, Len(log.iteracoes)) = log.iteracoes
    /\ \A k \in 1..Len(log'.iteracoes) : log'.iteracoes[k].numero = k
    /\ consultas' \in {consultas, Append(consultas, Len(consultas) + 1)}

\* C21: when every model call and tool call returns, a run that starts in
\* iteration 1 reaches Answered or Exhausted whatever the model writes; every
\* step moves the iteration index forward by one or keeps it, no completed
\* iteration is run again, and no step leaves a terminal state.
C21_Terminates == <>(Answered \/ Exhausted) /\ [][IterationAdvances]_vars

\* a run of budget 3 that ended Answered in its second iteration
C21_Witness ==
    /\ Answered
    /\ max_iterations = 3
    /\ log.iteracoes_utilizadas = 2
    /\ i = 2

\* C22: a run of budget >= 1 stops before iteration budget only on an Answer
\* turn: the loop is left by break only with sucesso True and an Answer turn as
\* the last record, after an iteration below the budget that ended without one
\* the loop goes on and does not finalize, and a finished run with fewer
\* iterations than the budget has sucesso True, one with sucesso False has
\* iteracoes_utilizadas equal to the budget.
C22_OnlyAnswerStopsEarly ==
    max_iterations >= 1 =>
        /\ pc = "break" =>
               /\ log.sucesso = TRUE
               /\ HasAnswer(Rec(Len(log.iteracoes)).resposta_llm)
        /\ (pc = "for" /\ i < max_iterations) => ENABLED ForNext /\ ~ENABLED Finalizacao
        /\ \A k \in 1..Len(log.iteracoes) :
               (/\ k < max_iterations
                /\ ~HasAnswer(Rec(k).resposta_llm)
                /\ pc \in {"break", "done"}) => Len(log.iteracoes) > k
        /\ pc = "done" =>
               /\ log.iteracoes_utilizadas < max_iterations => log.sucesso = TRUE
               /\ log.sucesso = FALSE => log.iteracoes_utilizadas = max_iterations

\* budget 3: a tool failure in iteration 1 did not end the loop, and the run
\* finished in iteration 2 on an Answer turn
C22_Witness ==
    /\ pc = "done"
    /\ max_iterations = 3
    /\ log.iteracoes_utilizadas = 2
    /\ log.sucesso = TRUE
    /\ Rec(1).resultado_ferramenta = <<"ERROR", ":", SP, "boom">>

\* C23: the model calls made are those of iterations 1..i, one each and in that
\* order; an iteration calls at most one tool, and the tool calls are in
\* iteration order; a tool call is open only after the assistant message of
\* its iteration is in the transcript, while a model call is open no tool call
\* of its iteration has been made and every earlier tool call has its result
\* recorded; a finished run made iteracoes_utilizadas model calls.
C23_OneCallAtATime ==
    /\ Len(consultas) = i
    /\ \A n \in 1..Len(consultas) : consultas[n] = n
    /\ \A k \in 1..i : Cardinality(InvocationsOf(k)) <= 1
    /\ \A n \in 1..Len(invocacoes) :
           /\ invocacoes[n][1] \in 1..i
           /\ \A m \in 1..(n - 1) : invocacoes[m][1] < invocacoes[n][1]
           /\ invocacoes[n][1] < i \/ pc \in {"for", "done"} =>
                  Rec(invocacoes[n][1]).resultado_ferramenta # None
    /\ pc = "tool" =>
           /\ InvocationsOf(i) = {Len(invocacoes)}
           /\ Len(messages) = 2 * i + 1
           /\ messages[2 * i + 1].role = "assistant"
           /\ Len(log.iteracoes) = i - 1
    /\ pc = "llm" =>
           /\ InvocationsOf(i) = {}
           /\ Len(messages) = 2 * i
           /\ Len(log.iteracoes) = i - 1
    /\ pc = "done" => Len(consultas) = log.iteracoes_utilizadas

\* a finished run of three iterations and three model calls, with a tool call
\* in the first and in the third iteration and none in the second
C23_Witness ==
    /\ pc = "done"
    /\ consultas = <<1, 2, 3>>
    /\ Len(invocacoes) = 2
    /\ invocacoes[1][1] = 1
    /\ invocacoes[2][1] = 3
    /\ log.iteracoes_utilizadas = 3

\* C24: in every record the three tool fields are all set or all unset. They
\* are set exactly when the turn had no Answer marker and the search for the
\* Action pattern, made on a turn with both markers, gave a match; the result
\* is then the not-found text for a name outside the registry, the arity text
\* when a registry tool was not called, and else what the tool returned or
\* "ERROR: " and the detail of its failure.
C24_ToolFieldsAllOrNothing ==
    \A k \in 1..Len(log.iteracoes) :
        /\ HasToolFields(Rec(k)) \/ HasNoToolFields(Rec(k))
        /\ HasToolFields(Rec(k)) <=>
               /\ ~Contains(Rec(k).resposta_llm, AnswerWord)
               /\ Contains(Rec(k).resposta_llm, PauseWord)
               /\ Contains(Rec(k).resposta_llm, ActionWord)
               /\ action_match(Rec(k).resposta_llm) # <<>>
        /\ HasToolFields(Rec(k)) =>
               Rec(k).resultado_ferramenta \in
                   IF Rec(k).ferramenta_chamada \notin FERRAMENTAS THEN {NotFoundText}
                   ELSE IF InvocationsOf(k) = {} THEN {ArityText}
                   ELSE ToolReturnTexts(Rec(k).ferramenta_chamada)
                            \cup { <<"ERROR", ":", SP>> \o e : e \in ExceptionTexts }

\* a log of three records: a not-found outcome, a turn with an Action line and
\* no pause marker, and a caught tool failure
C24_Witness ==
    /\ Len(log.iteracoes) = 3
    /\ Rec(1).resultado_ferramenta = NotFoundText
    /\ HasToolFields(Rec(1))
    /\ Contains(Rec(2).resposta_llm, ActionWord)
    /\ HasNoToolFields(Rec(2))
    /\ Rec(3).resultado_ferramenta = <<"ERROR", ":", SP, "boom">>
    /\ HasToolFields(Rec(3))

\* C25: with max_iterations <= 0 the loop body never runs: the iteration index
\* stays 0, no model call and no tool call is made, the transcript is the
\* system message alone, no record is appended, the only step is the
\* finalization, and the log it hands to _salvar_log has iteracoes_utilizadas
\* 0, no records, sucesso False and an empty resposta_final.
C25_NonPositiveBudget ==
    max_iterations <= 0 =>
        /\ i = 0
        /\ pc \in {"for", "done"}
        /\ consultas = <<>>
        /\ invocacoes = <<>>
        /\ messages = << [role |-> "system", content |-> SYSTEM_PROMPT] >>
        /\ log.iteracoes = <<>>
        /\ log.sucesso = FALSE
        /\ pc = "for" => ~ENABLED ForNext /\ ENABLED Finalizacao /\ salvo = <<>>
        /\ pc = "done" =>
               /\ log.iteracoes_utilizadas = 0
               /\ log.resposta_final = <<>>
               /\ log.max_iteracoes = max_iterations
               /\ salvo = <<log>>

\* the finished run of budget 0
C25_Witness ==
    /\ max_iterations = 0
    /\ pc = "done"
    /\ salvo = <<log>>
    /\ log.iteracoes_utilizadas = 0
    /\ Len(messages) = 1

====
